---- MODULE Spec2Model ----
(***************************************************************************)
(* Model of algotrader (src/main.py): the portfolio run of main() and the  *)
(* corporate-action normalisation of BaseStockAPI.                         *)
(*                                                                         *)
(* Python values are modelled as follows.                                  *)
(*   - None-or-object: a record [none, items]; NoneVal is Python's None.   *)
(*   - a cell value: <<kind, n>>, kind "float" with n the number, kind     *)
(*     "str" with n the length of the string.                              *)
(*   - a DataFrame of actions: [index, columns, data], data[r][c] the cell *)
(*     of row r and of the column at position c.                           *)
(*   - a dict: the sequence of its items in insertion order.               *)
(*   - a string built by formatting: the sequence of its characters.       *)
(***************************************************************************)
EXTENDS Integers, Sequences, FiniteSets, TLC

VARIABLES
    env_key,            \* os.environ.get('OPENAI_API_KEY'); NoKey when absent
    openai_api_key,     \* the module global openai.api_key
    portfolio_file,     \* content of portfolio.json; NoFile when it is missing
    file_opened,        \* portfolio.json was opened
    portfolio,          \* the local portfolio of check_portfolio
    idx,                \* position of the for loop of check_portfolio
    pc,                 \* position of the run
    error,              \* the exception that ended the run
    organized_actions,  \* YFActions.organized_actions
    current_ticker_symbol, \* YFActions.current_ticker_symbol
    actions,            \* ticker.actions of the Ticker being handled
    ret,                \* result of the latest get_organized_stock_actions
    prev_ret,           \* result of the call before it
    log                 \* console output and provider calls, in order

vars == <<env_key, openai_api_key, portfolio_file, file_opened, portfolio, idx,
          pc, error, organized_actions, current_ticker_symbol, actions, ret,
          prev_ret, log>>

(***************************************************************************)
(* Bounds                                                                  *)
(***************************************************************************)
MaxPortfolio == 2       \* entries of portfolio.json
MaxProviderRows == 1    \* rows of a table the provider returns in a run
MaxRows == 2            \* rows of a table given to the normaliser alone

(***************************************************************************)
(* Values                                                                  *)
(***************************************************************************)
NoKey == "None"
NoneVal == [none |-> TRUE, items |-> <<>>]
NoFile == NoneVal
Obj(items) == [none |-> FALSE, items |-> items]
NoTicker == ""
NoError == ""
SomeKey == "sk-test"
HarnessTicker == "AAPL"

Tickers == {"AAPL", "MSFT"}
ColumnNames == {"Dividends", "Stock Splits"}
Zero == <<"float", 0>>
EmptyStr == <<"str", 0>>
One == <<"float", 1>>
Values == {Zero, EmptyStr, One}
ProviderValues == {Zero, One}

\* the pandas Timestamp of the k-th trading day of the model
Timestamp(k) == [year |-> 2024, month |-> k, day |-> 4 + 7 * k]

\* injective sequences over S of length at most n
InjSeqs(S, n) ==
    UNION {{s \in [1..k -> S] : \A i, j \in 1..k : i # j => s[i] # s[j]} :
           k \in 0..n}

DataFrames(indexes, columnss, values) ==
    UNION {{[index |-> i, columns |-> c, data |-> d] :
            d \in [1..Len(i) -> [1..Len(c) -> values]]} :
           <<i, c>> \in indexes \X columnss}

\* every table the normaliser is given on its own
Tables ==
    DataFrames(InjSeqs({Timestamp(k) : k \in 1..MaxRows}, MaxRows),
               InjSeqs(ColumnNames, Cardinality(ColumnNames)), Values)

\* the tables yfinance returns: both columns, rows in date order
ProviderTables ==
    DataFrames({[k \in 1..n |-> Timestamp(k)] : n \in 0..MaxProviderRows},
               {<<"Dividends", "Stock Splits">>}, ProviderValues)

NoTable == [index |-> <<>>, columns |-> <<>>, data |-> <<>>]

\* the tables a YFActions object handled before the call under study
PriorTables ==
    {[index |-> <<Timestamp(1)>>, columns |-> <<"Dividends", "Stock Splits">>,
      data |-> <<d>>] : d \in {<<Zero, Zero>>, <<One, Zero>>, <<One, One>>}}

Portfolios ==
    UNION {[1..n -> [ticker : Tickers]] : n \in 0..MaxPortfolio}

(***************************************************************************)
(* Formatting                                                              *)
(***************************************************************************)
DigitChar == <<"0", "1", "2", "3", "4", "5", "6", "7", "8", "9">>
Digit(n) == DigitChar[n + 1]
Pad2(n) == <<Digit((n \div 10) % 10), Digit(n % 10)>>
Pad4(n) == <<Digit((n \div 1000) % 10), Digit((n \div 100) % 10)>> \o Pad2(n % 100)

\* index.strftime('%Y-%m-%d')
Strftime(ts) == Pad4(ts.year) \o <<"-">> \o Pad2(ts.month) \o <<"-">> \o Pad2(ts.day)

(***************************************************************************)
(* BaseStockAPI                                                            *)
(***************************************************************************)
\* DataFrame.empty: some axis has length 0
Empty(df) == Len(df.index) = 0 \/ Len(df.columns) = 0

TruthyNotZero(v) == v # Zero

\* the truth value Python gives a cell in "if action_value := row[col_name]"
Truthy(v) == v[2] # 0

\* dict.setdefault(col_name, []).append(rec)
SetDefaultAppend(items, col_name, rec) ==
    IF \E k \in 1..Len(items) : items[k].type = col_name
    THEN [k \in 1..Len(items) |->
            IF items[k].type = col_name
            THEN [items[k] EXCEPT !.records = Append(@, rec)]
            ELSE items[k]]
    ELSE Append(items, [type |-> col_name, records |-> <<rec>>])

CellAtColumnMajor(df, k) ==
    [r |-> ((k - 1) % Len(df.index)) + 1, c |-> ((k - 1) \div Len(df.index)) + 1]

\* the k-th cell visited by "for index, row in actions.iterrows():
\*                             for col_name in actions.columns:"
CellAt(df, k) ==
    [r |-> ((k - 1) \div Len(df.columns)) + 1, c |-> ((k - 1) % Len(df.columns)) + 1]

\* the two loops of get_organized_stock_actions from the k-th cell on
RECURSIVE ScanCells(_, _, _)
ScanCells(df, k, items) ==
    IF k > Len(df.index) * Len(df.columns)
    THEN items
    ELSE LET cell == CellAt(df, k)
             action_value == df.data[cell.r][cell.c]
         IN  ScanCells(df, k + 1,
                 IF Truthy(action_value)
                 THEN SetDefaultAppend(items, df.columns[cell.c],
                          [date |-> Strftime(df.index[cell.r]),
                           value |-> action_value])
                 ELSE items)

ItemsOf(oa) == IF oa.none THEN <<>> ELSE oa.items

GetOrganizedNoReset(oa, df) ==
    IF Empty(df)
    THEN [ret |-> NoneVal, oa |-> oa]
    ELSE LET items == ScanCells(df, 1, ItemsOf(oa))
         IN  [ret |-> IF items = <<>> THEN NoneVal ELSE Obj(items),
              oa |-> Obj(items)]

GetOrganizedNoOrNone(oa, df) ==
    IF Empty(df)
    THEN [ret |-> NoneVal, oa |-> oa]
    ELSE LET items == ScanCells(df, 1, <<>>)
         IN  [ret |-> Obj(items), oa |-> Obj(items)]

\* get_organized_stock_actions: its result and self.organized_actions after it
GetOrganized(oa, df) ==
    IF Empty(df)
    THEN [ret |-> NoneVal, oa |-> oa]
    ELSE LET items == ScanCells(df, 1, <<>>)
         IN  [ret |-> IF items = <<>> THEN NoneVal ELSE Obj(items),
              oa |-> Obj(items)]

\* pd.DataFrame(records) with the column 'type' set to action_type
TempDf(action_type, records) ==
    [j \in 1..Len(records) |->
        [type |-> action_type, date |-> records[j].date,
         value |-> records[j].value]]

\* create_stock_records_df(pd.DataFrame()): the rows of the concatenation
RECURSIVE CreateStockRecordsDf(_, _)
CreateStockRecordsDf(items, actions_df) ==
    IF items = <<>>
    THEN actions_df
    ELSE CreateStockRecordsDf(Tail(items),
             actions_df \o TempDf(Head(items).type, Head(items).records))

Event(kind, ticker, rows) == [kind |-> kind, ticker |-> ticker, rows |-> rows]

\* print_formatted_stock_actions: the lines it prints
PrintFormatted(cur, actions_df) ==
    (IF cur # NoTicker THEN <<Event("ticker", cur, <<>>)>> ELSE <<>>)
    \o <<Event("table", NoTicker, actions_df)>>

HandleReadsState(oa, cur, df, ticker_symbol) ==
    LET g == GetOrganized(oa, df)
    IN  [oa |-> g.oa, ret |-> g.ret,
         prints |->
            IF ~g.oa.none /\ g.oa.items # <<>>
            THEN LET actions_df == CreateStockRecordsDf(g.oa.items, <<>>)
                 IN  IF actions_df # <<>> THEN PrintFormatted(cur, actions_df)
                     ELSE <<>>
            ELSE <<Event("noactions", ticker_symbol, <<>>)>>]

\* YFActions.handle_stock_actions: the object after it and what it prints
Handle(oa, cur, df, ticker_symbol) ==
    LET g == GetOrganized(oa, df)
    IN  [oa |-> g.oa, ret |-> g.ret,
         prints |->
            IF ~g.ret.none /\ g.ret.items # <<>>
            THEN LET actions_df == CreateStockRecordsDf(g.oa.items, <<>>)
                 IN  IF actions_df # <<>> THEN PrintFormatted(cur, actions_df)
                     ELSE <<>>
            ELSE <<Event("noactions", ticker_symbol, <<>>)>>]

(***************************************************************************)
(* main(): the portfolio run                                               *)
(***************************************************************************)
Init ==
    /\ env_key \in {NoKey, SomeKey}
    /\ openai_api_key = NoKey
    /\ portfolio_file \in {NoFile} \cup {Obj(p) : p \in Portfolios}
    /\ file_opened = FALSE
    /\ portfolio = NoneVal
    /\ idx = 0
    /\ pc = "main"
    /\ error = NoError
    /\ organized_actions = NoneVal
    /\ current_ticker_symbol = NoTicker
    /\ actions = NoTable
    /\ ret = NoneVal
    /\ prev_ret = NoneVal
    /\ log = <<>>

LoadApiKeyNoAssert ==
    /\ pc = "main"
    /\ openai_api_key' = env_key
    /\ pc' = "load"
    /\ UNCHANGED <<env_key, portfolio_file, file_opened, portfolio, idx, error,
                   organized_actions, current_ticker_symbol, actions, ret,
                   prev_ret, log>>

\* OpenAIAPI(): load_api_key, then the constructors of main
LoadApiKey ==
    /\ pc = "main"
    /\ IF env_key = NoKey
       THEN /\ pc' = "crashed"
            /\ error' = "AssertionError"
            /\ UNCHANGED openai_api_key
       ELSE /\ openai_api_key' = env_key
            /\ pc' = "load"
            /\ UNCHANGED error
    /\ UNCHANGED <<env_key, portfolio_file, file_opened, portfolio, idx,
                   organized_actions, current_ticker_symbol, actions, ret,
                   prev_ret, log>>

\* PortfolioManager.load_portfolio, called by check_portfolio
LoadPortfolio ==
    /\ pc = "load"
    /\ IF portfolio_file.none
       THEN /\ log' = Append(log, Event("loadfail", NoTicker, <<>>))
            /\ portfolio' = NoneVal
            /\ UNCHANGED file_opened
       ELSE /\ file_opened' = TRUE
            /\ portfolio' = portfolio_file
            /\ log' = Append(log, Event("loaded", NoTicker, <<>>))
    /\ pc' = "loop"
    /\ UNCHANGED <<env_key, openai_api_key, portfolio_file, idx, error,
                   organized_actions, current_ticker_symbol, actions, ret,
                   prev_ret>>

\* "for stock in portfolio:" of check_portfolio
ForStock ==
    /\ pc = "loop"
    /\ IF portfolio.none
       THEN /\ pc' = "crashed"
            /\ error' = "TypeError"
            /\ UNCHANGED idx
       ELSE IF idx < Len(portfolio.items)
       THEN /\ idx' = idx + 1
            /\ pc' = "fetch"
            /\ UNCHANGED error
       ELSE /\ pc' = "done"
            /\ UNCHANGED <<idx, error>>
    /\ UNCHANGED <<env_key, openai_api_key, portfolio_file, file_opened,
                   portfolio, organized_actions, current_ticker_symbol,
                   actions, ret, prev_ret, log>>

CurrentStockReversed(entries, i) == entries[Len(entries) - i + 1]

\* the stock the i-th iteration of the for loop binds
CurrentStock(entries, i) == entries[i]

\* YFinanceAPI.fetch_and_format_stock_info and YFActions' up to yf.Ticker()
FetchAndFormat ==
    /\ pc = "fetch"
    /\ LET ticker_symbol == CurrentStock(portfolio.items, idx).ticker
       IN  log' = log \o <<Event("fetching", ticker_symbol, <<>>),
                           Event("ticker", ticker_symbol, <<>>)>>
    /\ pc' = "provider"
    /\ UNCHANGED <<env_key, openai_api_key, portfolio_file, file_opened,
                   portfolio, idx, error, organized_actions,
                   current_ticker_symbol, actions, ret, prev_ret>>

\* the provider answers ticker.actions with a table
ProviderReturn(df) ==
    /\ pc = "provider"
    /\ actions' = df
    /\ log' = Append(log, Event("provider_call",
                  CurrentStock(portfolio.items, idx).ticker, <<>>))
    /\ pc' = "handle"
    /\ UNCHANGED <<env_key, openai_api_key, portfolio_file, file_opened,
                   portfolio, idx, error, organized_actions,
                   current_ticker_symbol, ret, prev_ret>>

ProviderRaiseIsolated ==
    /\ pc = "provider"
    /\ log' = Append(log, Event("provider_call",
                  CurrentStock(portfolio.items, idx).ticker, <<>>))
    /\ error' = "ProviderError"
    /\ pc' = "loop"
    /\ UNCHANGED <<env_key, openai_api_key, portfolio_file, file_opened,
                   portfolio, idx, organized_actions, current_ticker_symbol,
                   actions, ret, prev_ret>>

\* the provider call throws; nothing up to main catches it
ProviderRaise ==
    /\ pc = "provider"
    /\ log' = Append(log, Event("provider_call",
                  CurrentStock(portfolio.items, idx).ticker, <<>>))
    /\ error' = "ProviderError"
    /\ pc' = "crashed"
    /\ UNCHANGED <<env_key, openai_api_key, portfolio_file, file_opened,
                   portfolio, idx, organized_actions, current_ticker_symbol,
                   actions, ret, prev_ret>>

\* YFActions.handle_stock_actions on the table the provider returned
HandleStockActions ==
    /\ pc = "handle"
    /\ LET h == Handle(organized_actions, current_ticker_symbol, actions,
                       CurrentStock(portfolio.items, idx).ticker)
       IN  /\ organized_actions' = h.oa
           /\ ret' = h.ret
           /\ log' = log \o h.prints
    /\ prev_ret' = ret
    /\ pc' = "loop"
    /\ UNCHANGED <<env_key, openai_api_key, portfolio_file, file_opened,
                   portfolio, idx, error, current_ticker_symbol, actions>>

Next ==
    \/ LoadApiKey
    \/ LoadPortfolio
    \/ ForStock
    \/ FetchAndFormat
    \/ \E df \in ProviderTables : ProviderReturn(df)
    \/ ProviderRaise
    \/ HandleStockActions

Spec == Init /\ [][Next]_vars

(***************************************************************************)
(* One YFActions object given tables directly                              *)
(***************************************************************************)
InitNorm ==
    /\ env_key = SomeKey
    /\ openai_api_key = SomeKey
    /\ portfolio_file = NoFile
    /\ file_opened = FALSE
    /\ portfolio = NoneVal
    /\ idx = 0
    /\ pc = "n_prior"
    /\ error = NoError
    /\ organized_actions = NoneVal
    /\ current_ticker_symbol = NoTicker
    /\ actions = NoTable
    /\ ret = NoneVal
    /\ prev_ret = NoneVal
    /\ log = <<>>

\* get_organized_stock_actions(ticker) with ticker.actions = df
CallGetOrganized(df, next_pc) ==
    /\ LET g == GetOrganized(organized_actions, df)
       IN  /\ organized_actions' = g.oa
           /\ ret' = g.ret
    /\ actions' = df
    /\ prev_ret' = ret
    /\ pc' = next_pc
    /\ UNCHANGED <<env_key, openai_api_key, portfolio_file, file_opened,
                   portfolio, idx, error, current_ticker_symbol, log>>

\* an earlier ticker of the same object
NormPrior(df) == pc = "n_prior" /\ CallGetOrganized(df, "n_call")

\* no earlier ticker: the object as constructed
NormFresh ==
    /\ pc = "n_prior"
    /\ pc' = "n_call"
    /\ UNCHANGED <<env_key, openai_api_key, portfolio_file, file_opened,
                   portfolio, idx, error, organized_actions,
                   current_ticker_symbol, actions, ret, prev_ret, log>>

\* handle_stock_actions(ticker, HarnessTicker) with ticker.actions = df
NormHandle(df) ==
    /\ pc = "n_call"
    /\ LET h == Handle(organized_actions, current_ticker_symbol, df,
                       HarnessTicker)
       IN  /\ organized_actions' = h.oa
           /\ ret' = h.ret
           /\ log' = log \o h.prints
    /\ actions' = df
    /\ prev_ret' = ret
    /\ pc' = "n_again"
    /\ UNCHANGED <<env_key, openai_api_key, portfolio_file, file_opened,
                   portfolio, idx, error, current_ticker_symbol>>

\* get_organized_stock_actions again, on the same table
NormAgain == pc = "n_again" /\ CallGetOrganized(actions, "n_done")

NextNorm ==
    \/ \E df \in PriorTables : NormPrior(df)
    \/ NormFresh
    \/ \E df \in Tables : NormHandle(df)
    \/ NormAgain

SpecNorm == InitNorm /\ [][NextNorm]_vars

(***************************************************************************)
(* Properties                                                              *)
(***************************************************************************)
Cells(df) == (1..Len(df.index)) \X (1..Len(df.columns))
IsFalsyCell(v) == v \in {Zero, EmptyStr}
TruthyCells(df) == {rc \in Cells(df) : ~IsFalsyCell(df.data[rc[1]][rc[2]])}
Slots(items) ==
    UNION {{<<k, j>> : j \in 1..Len(items[k].records)} : k \in 1..Len(items)}
SameCell(df, items, kj, rc) ==
    /\ items[kj[1]].type = df.columns[rc[2]]
    /\ items[kj[1]].records[kj[2]].date = Strftime(df.index[rc[1]])
IsRecordOf(df, items, kj, rc) ==
    /\ SameCell(df, items, kj, rc)
    /\ items[kj[1]].records[kj[2]].value = df.data[rc[1]][rc[2]]
Normalised(df, items) ==
    /\ Cardinality(Slots(items)) = Cardinality(TruthyCells(df))
    /\ \A kj \in Slots(items) :
          /\ Cardinality({rc \in TruthyCells(df) : IsRecordOf(df, items, kj, rc)}) = 1
          /\ \A rc \in Cells(df) \ TruthyCells(df) : ~SameCell(df, items, kj, rc)
    /\ \A rc \in TruthyCells(df) :
          Cardinality({kj \in Slots(items) : IsRecordOf(df, items, kj, rc)}) = 1
    /\ \A k1, k2 \in 1..Len(items) : items[k1].type = items[k2].type => k1 = k2
Called == pc \in {"n_again", "n_done"}

\* C1: for a table with at least one truthy cell, get_organized_stock_actions
\* returns as many records, over all types, as the table has truthy cells;
\* every record is the (column, formatted row date, value) of exactly one
\* truthy cell, every truthy cell has exactly one record, and no record
\* stands for a falsy cell.
C1_TruthyCellsOneRecordEach ==
    (Called /\ TruthyCells(actions) # {}) =>
        /\ ~ret.none
        /\ Normalised(actions, ret.items)

C1_Witness ==
    /\ pc = "n_again"
    /\ Cardinality(TruthyCells(actions)) = 2
    /\ Cardinality(Cells(actions)) = 4
    /\ \E rc \in Cells(actions) : actions.data[rc[1]][rc[2]] = EmptyStr
    /\ ~ret.none

\* C2: when portfolio.json does not exist, load_portfolio returns an empty
\* sequence, a value that can be iterated zero times.
C2_MissingFileGivesEmptySequence ==
    (portfolio_file.none /\ pc = "loop") =>
        (~portfolio.none /\ portfolio.items = <<>>)

\* C3: when portfolio.json is missing, check_portfolio prints the load-failed
\* message, calls the provider for no ticker and never ends in an error.
C3_MissingFileRunFinishes ==
    (portfolio_file.none /\ pc \notin {"main", "load"}) =>
        /\ log = <<Event("loadfail", NoTicker, <<>>)>>
        /\ pc # "crashed"
        /\ error = NoError

\* C4: for a table with zero rows and for a table whose cells are all falsy,
\* get_organized_stock_actions returns None and handle_stock_actions prints
\* the "No actions found" message of the ticker and no table.
C4_NothingTruthyGivesNoActions ==
    (Called /\ TruthyCells(actions) = {}) =>
        /\ ret = NoneVal
        /\ log = <<Event("noactions", HarnessTicker, <<>>)>>

C4_Witness ==
    /\ pc = "n_again"
    /\ Cardinality(Cells(actions)) = 4
    /\ TruthyCells(actions) = {}
    /\ \E rc \in Cells(actions) : actions.data[rc[1]][rc[2]] = EmptyStr
    /\ ~organized_actions.none
    /\ prev_ret # NoneVal
    /\ log # <<>>

\* the position of a cell in a scan row by row and, in a row, column by column
ScanPos(df, rc) == (rc[1] - 1) * Len(df.columns) + rc[2]
FirstTruthy(df, type) ==
    LET ps == {ScanPos(df, rc) : rc \in {x \in TruthyCells(df) : df.columns[x[2]] = type}}
    IN  CHOOSE p \in ps : \A q \in ps : p <= q
RowOf(df, date) == CHOOSE r \in 1..Len(df.index) : Strftime(df.index[r]) = date
Printed == log[Len(log)].rows

\* C5: the rows displayed are grouped by action type: the rows of a type are
\* contiguous and in the row order of the table, and the groups come in the
\* order in which the types first had a truthy cell in the scan.
C5_GroupedInFirstSeenOrder ==
    (Called /\ log # <<>> /\ log[Len(log)].kind = "table") =>
        /\ Len(Printed) = Cardinality(TruthyCells(actions))
        /\ \A i, j \in 1..Len(Printed) :
              i < j =>
                 IF Printed[i].type = Printed[j].type
                 THEN /\ RowOf(actions, Printed[i].date) < RowOf(actions, Printed[j].date)
                      /\ \A m \in i..j : Printed[m].type = Printed[i].type
                 ELSE FirstTruthy(actions, Printed[i].type)
                         < FirstTruthy(actions, Printed[j].type)

C5_Witness ==
    /\ pc = "n_again"
    /\ Len(log) = 1
    /\ Len(Printed) = 3
    /\ Len(actions.columns) = 2
    /\ Printed[1].type = actions.columns[2]
    /\ Printed[2].type = actions.columns[2]
    /\ Printed[3].type = actions.columns[1]
    /\ actions.index = <<Timestamp(2), Timestamp(1)>>
    /\ Printed[1].date = Strftime(Timestamp(2))

BlockOf(k) == ((k - 2) \div 4) + 1
OffsetOf(k) == (k - 2) % 4
ProviderCalls == {k \in 1..Len(log) : log[k].kind = "provider_call"}

\* C6: check_portfolio handles the entries in file order, one at a time: the
\* output is, entry after entry, the two header lines, the provider call and
\* then exactly one of a table or a "No actions found" message; an entry is
\* begun only when its predecessor's output is complete, and a run that ends
\* normally has fetched every entry exactly once.
C6_EntriesInFileOrderOneAtATime ==
    (~portfolio.none /\ pc \notin {"main", "load"}) =>
        /\ \A k \in 2..Len(log) :
              /\ BlockOf(k) <= Len(portfolio.items)
              /\ LET t == portfolio.items[BlockOf(k)].ticker
                 IN  CASE OffsetOf(k) = 0 -> log[k] = Event("fetching", t, <<>>)
                       [] OffsetOf(k) = 1 -> log[k] = Event("ticker", t, <<>>)
                       [] OffsetOf(k) = 2 -> log[k] = Event("provider_call", t, <<>>)
                       [] OffsetOf(k) = 3 ->
                            \/ log[k].kind = "table" /\ log[k].rows # <<>>
                            \/ log[k] = Event("noactions", t, <<>>)
        /\ (pc = "fetch" => Len(log) = 1 + 4 * (idx - 1))
        /\ (pc = "provider" => Len(log) = 3 + 4 * (idx - 1))
        /\ (pc = "done" => /\ Len(log) = 1 + 4 * Len(portfolio.items)
                           /\ Cardinality(ProviderCalls) = Len(portfolio.items))

C6_Witness ==
    /\ pc = "done"
    /\ Len(portfolio.items) = 2
    /\ portfolio.items[1].ticker = "AAPL"
    /\ portfolio.items[2].ticker = "MSFT"
    /\ log[5].kind = "table"
    /\ Len(log[5].rows) = 1
    /\ log[9] = Event("noactions", "MSFT", <<>>)

\* C7: when the provider call of the entry at position i throws, the run ends
\* there with the provider's error: the entries before i have their complete
\* output, entry i has its header only, it is called once, and no later entry
\* is fetched or printed.
C7_ProviderFailureEndsTheRun ==
    (error = "ProviderError") =>
        /\ pc = "crashed"
        /\ idx \in 1..Len(portfolio.items)
        /\ Len(log) = 4 * idx
        /\ log[Len(log)] =
              Event("provider_call", portfolio.items[idx].ticker, <<>>)
        /\ Cardinality(ProviderCalls) = idx
        /\ \A b \in 1..(idx - 1) : log[1 + 4 * b].kind \in {"table", "noactions"}

C7_Witness ==
    /\ error = "ProviderError"
    /\ pc = "crashed"
    /\ idx = 1
    /\ Len(portfolio.items) = 2

\* C8: when OPENAI_API_KEY is absent the run ends at the assertion of
\* load_api_key: portfolio.json is never opened, nothing is printed, no
\* provider call is made and openai.api_key keeps its value.
C8_MissingKeyFailsFirst ==
    (env_key = NoKey) =>
        /\ pc \in {"main", "crashed"}
        /\ (pc = "crashed" => error = "AssertionError")
        /\ ~file_opened
        /\ portfolio.none
        /\ log = <<>>
        /\ openai_api_key = NoKey

C8_Witness ==
    /\ env_key = NoKey
    /\ pc = "crashed"
    /\ ~portfolio_file.none
    /\ Len(portfolio_file.items) = 2

\* C9: get_organized_stock_actions called twice in a row on the same table
\* returns the same value both times, whatever the object handled before.
C9_SecondCallSameResult ==
    (pc = "n_done") => (ret = prev_ret)

C9_Witness ==
    /\ pc = "n_done"
    /\ ~ret.none
    /\ Cardinality(Slots(ret.items)) = 2
    /\ organized_actions = ret
    /\ log # <<>>

StaleFree(df, oa) ==
    \A kj \in Slots(ItemsOf(oa)) :
        \E rc \in TruthyCells(df) : IsRecordOf(df, ItemsOf(oa), kj, rc)

\* C10 as claimed: after any ticker, also one whose table has zero rows,
\* organized_actions holds no record of an earlier ticker's table.
C10_NoEarlierRecordKept ==
    (pc = "loop" /\ idx >= 1) =>
        StaleFree(actions, organized_actions)

\* C10 as amended: organized_actions is reinitialised by every ticker whose
\* table is not empty; after a ticker whose table is empty it is left as it
\* was, and that ticker prints "No actions found" and no table. Every table
\* printed holds records of the current ticker's table only.
C10_NoEarlierRecordPrinted ==
    (pc = "loop" /\ idx >= 1) =>
        /\ (Len(actions.index) > 0 =>
               /\ ~organized_actions.none
               /\ Normalised(actions, organized_actions.items))
        /\ (Len(actions.index) = 0 =>
               log[Len(log)] =
                  Event("noactions", portfolio.items[idx].ticker, <<>>))
        /\ (log[Len(log)].kind = "table" =>
               /\ log[Len(log)].rows =
                     CreateStockRecordsDf(organized_actions.items, <<>>)
               /\ StaleFree(actions, organized_actions))

C10_Witness ==
    /\ pc = "loop"
    /\ idx = 2
    /\ Len(actions.index) = 0
    /\ ~organized_actions.none
    /\ organized_actions.items # <<>>
    /\ log[Len(log)].kind = "noactions"

====
